---- MODULE Spec2Model ----
(***************************************************************************)
(* Model of the streaming relay of src/src/react_agent/app.py:             *)
(* message_generator (the async generator that turns the events of a       *)
(* LangGraph run into SSE frames) and get_message (the route that opens    *)
(* one generator per SSE request).                                         *)
(*                                                                         *)
(* Text is a sequence of one-character strings, so that str.strip(), the   *)
(* f-string framing and "".join are modelled by what they do.  In a frame  *)
(* the literal pieces without a newline ("event: message", "data: ") are   *)
(* single tokens and every newline is a token "\n" of its own.             *)
(***************************************************************************)
EXTENDS Integers, Sequences, FiniteSets, TLC

(***************************************************************************)
(* Bounds of the model.                                                    *)
(***************************************************************************)
\* events the remote service emits for one run before it ends or fails
MaxEvents == 3
\* uuid4() values drawn for thread ids and user ids
MaxUuids == 3
\* runs created by send_message
MaxRuns == 2

(***************************************************************************)
(* Python values met in a content field.                                   *)
(***************************************************************************)
\* the characters str.strip() removes (those of the model's alphabet)
Whitespace == {" ", "\n", "\t"}

Str(s) == [tag |-> "str", val |-> s]
NoneV == [tag |-> "none", val |-> <<>>]
Missing == [tag |-> "missing", val |-> <<>>]
ListV(parts) == [tag |-> "list", val |-> parts]
DictV == [tag |-> "dict", val |-> <<"k">>]

\* a content part: a dict with (or without) a "text" key, or a non-dict
TextPart(s) == [isdict |-> TRUE, text |-> Str(s)]
OtherPart == [isdict |-> TRUE, text |-> Missing]
RawPart(s) == [isdict |-> FALSE, text |-> Str(s)]

\* a message dict: its "type" and its "content" (Missing: no such key)
Msg(type, content) == [type |-> type, content |-> content]

\* a StreamPart: chunk.event, and the message list of chunk.data
\* (chunk.data itself for "messages", chunk.data["messages"] for "values")
Chunk(event, msgs) == [event |-> event, msgs |-> msgs]

(***************************************************************************)
(* Pure steps of message_generator.                                        *)
(***************************************************************************)
\* bool(x) of a content value
Truthy(v) == Len(v.val) > 0

\* d.get("content", "")
GetContent(msg) == IF msg.content.tag = "missing" THEN Str(<<>>) ELSE msg.content

\* c.get("text")
GetText(part) == IF part.text.tag = "missing" THEN NoneV ELSE part.text

RECURSIVE LStrip(_)
LStrip(s) == IF s = <<>> THEN s
             ELSE IF Head(s) \in Whitespace THEN LStrip(Tail(s)) ELSE s

RECURSIVE RStrip(_)
RStrip(s) == IF s = <<>> THEN s
             ELSE IF s[Len(s)] \in Whitespace THEN RStrip(SubSeq(s, 1, Len(s) - 1)) ELSE s

\* str.strip()
Strip(s) == RStrip(LStrip(s))

\* f"event: message\ndata: {content}\n\n"
MessageFrame(text) == <<"event: message", "\n", "data: ">> \o text \o <<"\n", "\n">>

\* "event: close\ndata:\n\n"
CloseFrame == <<"event: close", "\n", "data:", "\n", "\n">>

\* what one step of the generator gives: a frame, nothing, or an exception
Yield(wire) == [kind |-> "yield", wire |-> wire]
Skip == [kind |-> "skip", wire |-> <<>>]
Raise == [kind |-> "raise", wire |-> <<>>]

\* the parts "".join(...) takes: c for c in content if isinstance(c, dict) and c.get("text")
Selected(part) == part.isdict /\ Truthy(GetText(part))

RECURSIVE JoinText(_)
JoinText(parts) ==
    IF parts = <<>> THEN <<>>
    ELSE (IF Selected(Head(parts)) THEN Head(parts).text.val ELSE <<>>) \o JoinText(Tail(parts))

\* "".join raises TypeError on a selected part whose text is not a str
JoinRaises(parts) == \E i \in 1..Len(parts) : Selected(parts[i]) /\ parts[i].text.tag # "str"

\* (variant: the test of line 597 without its content.strip())
FragmentStepNoStrip(msg) ==
    LET content == GetContent(msg) IN
    IF ~Truthy(content) THEN Skip
    ELSE IF content.tag # "str" THEN Raise
    ELSE Yield(MessageFrame(content.val))

\* (variant: line 598 yielding the stripped content)
FragmentStepStripped(msg) ==
    LET content == GetContent(msg) IN
    IF ~Truthy(content) THEN Skip
    ELSE IF content.tag # "str" THEN Raise
    ELSE IF Strip(content.val) # <<>> THEN Yield(MessageFrame(Strip(content.val)))
    ELSE Skip

\* lines 596-598: one chunk_msg of a "messages" event
FragmentStep(msg) ==
    LET content == GetContent(msg) IN
    IF ~Truthy(content) THEN Skip
    ELSE IF content.tag # "str" THEN Raise
    ELSE IF Strip(content.val) # <<>> THEN Yield(MessageFrame(content.val))
    ELSE Skip

\* (variant: lines 605-607 taking the first part only)
SnapshotContentFirstPart(content) ==
    IF content.tag = "list"
    THEN (IF JoinRaises(content.val) THEN Raise
          ELSE LET first == IF content.val = <<>> THEN <<>> ELSE JoinText(<<Head(content.val)>>) IN
               IF Strip(first) # <<>> THEN Yield(MessageFrame(Strip(first))) ELSE Skip)
    ELSE IF content.tag # "str" THEN Raise
    ELSE IF Strip(content.val) # <<>> THEN Yield(MessageFrame(Strip(content.val)))
    ELSE Skip

\* lines 603-610: the content of the last message of a "values" event
SnapshotContent(content) ==
    IF content.tag = "list"
    THEN (IF JoinRaises(content.val) THEN Raise
          ELSE IF Strip(JoinText(content.val)) # <<>>
               THEN Yield(MessageFrame(Strip(JoinText(content.val))))
               ELSE Skip)
    ELSE IF content.tag # "str" THEN Raise
    ELSE IF Strip(content.val) # <<>> THEN Yield(MessageFrame(Strip(content.val)))
    ELSE Skip

\* (variant: without the type test of lines 601-602)
SnapshotStepAnyRole(msgs) ==
    IF msgs = <<>> THEN Raise
    ELSE SnapshotContent(GetContent(msgs[Len(msgs)]))

\* lines 600-610: a "values" event
SnapshotStep(msgs) ==
    IF msgs = <<>> THEN Raise
    ELSE LET last_msg == msgs[Len(msgs)] IN
         IF last_msg.type # "ai" THEN Skip
         ELSE SnapshotContent(GetContent(last_msg))

(***************************************************************************)
(* Inputs: the text, the events a run can emit, the requests.              *)
(***************************************************************************)
A == <<"a">>
B == <<"b">>
SpA == <<" ", "a">>
SpB == <<" ", "b">>
Blank == <<" ">>
Padded == <<" ", "a", "\n">>
TwoLines == <<"a", "\n", "b">>

Fragment(content) == Chunk("messages", <<Msg("AIMessageChunk", content)>>)
Snapshot(msgs) == Chunk("values", msgs)
Human == Msg("human", Str(A))

\* well-shaped message fragments, blank or not
FragmentEvents ==
    {Fragment(Str(s)) : s \in {A, SpA, <<>>, Blank, TwoLines}}
    \cup {Chunk("messages", <<Msg("AIMessageChunk", Str(A)), Msg("AIMessageChunk", Str(B))>>)}

\* well-shaped full-state snapshots
SnapshotEvents ==
    {Snapshot(<<Msg("ai", Str(B)), Human>>)}
    \cup {Snapshot(<<Human, Msg("ai", Str(s))>>) : s \in {Padded, Blank}}
    \cup {Snapshot(<<Msg("ai", ListV(p))>>) :
            p \in {<<TextPart(A), TextPart(SpB)>>, <<OtherPart, TextPart(A), RawPart(B)>>}}

\* events whose content field has an unexpected shape
OddEvents ==
    {Fragment(c) : c \in {NoneV, ListV(<<TextPart(A)>>)}}
    \cup {Snapshot(<<Msg("ai", c)>>) : c \in {NoneV, DictV}}
    \cup {Snapshot(<<>>)}

\* events of a kind the generator has no branch for
OtherEvents == {Chunk("metadata", <<>>)}

Events == FragmentEvents \cup SnapshotEvents \cup OddEvents \cup OtherEvents

\* the (thread_id, run_id) pairs of the runs that exist on the remote service
RunKeys == {<<"t1", "r1">>, <<"t2", "r2">>}
NoKey == <<"", "">>

\* the SSE connections browsers can open
Sessions == {"s1", "s2"}

(***************************************************************************)
(* State.                                                                  *)
(***************************************************************************)
VARIABLES
    log,      \* log[k]: the events the remote service has emitted for run k
    status,   \* status[k]: "running", "ended" (stream exhausted) or "failed"
    pc,       \* pc[s]: where the generator of session s stands: "idle" (no
              \* request yet), "loop" (at the async for), "body" (in the inner
              \* for), "done" (returned), "raised" (an exception of its own
              \* code left it), "aborted" (an exception of the stream left it)
    key,      \* key[s]: the (thread_id, run_id) get_message was called with
    pos,      \* pos[s]: how many events of the stream the generator has taken
    idx,      \* idx[s]: how many chunk_msgs of the current event it is past
    frames    \* frames[s]: what was written to the SSE response, in order;
              \* each frame with the stream and the event it was made from

\* the browsers, and the thread ids a URL can name
Browsers == {"b1", "b2"}
ThreadIds == {"t1", "t2"}

\* no response yet; every response has these fields
NoResponse ==
    [browser |-> "none", route |-> "none", kind |-> "none", error |-> "none",
     location |-> {}, thread |-> {}, existed |-> FALSE, form |-> {},
     user_id |-> {}, had_cookie |-> FALSE, set_cookie |-> {}, failed |-> {},
     messages |-> <<>>, listing |-> {}, bubble |-> {}, placeholder |-> {}]

\* the page routes and what they reach on the remote service
VARIABLES
    cookie,   \* cookie[b]: the user_id cookie browser b holds ({}: none)
    threads,  \* threads[t]: the metadata user_id of thread t ({}: no such thread)
    runs,     \* the runs created on the remote service, in order
    uuids,    \* how many uuid4() values have been drawn
    resp      \* the last response sent, and the browser that received it

relayVars == <<log, status, pc, key, pos, idx, frames>>
routeVars == <<cookie, threads, runs, uuids, resp>>
vars == <<log, status, pc, key, pos, idx, frames, cookie, threads, runs, uuids, resp>>

Init ==
    /\ log = [k \in RunKeys |-> <<>>]
    /\ status = [k \in RunKeys |-> "running"]
    /\ pc = [s \in Sessions |-> "idle"]
    /\ key = [s \in Sessions |-> NoKey]
    /\ pos = [s \in Sessions |-> 0]
    /\ idx = [s \in Sessions |-> 0]
    /\ frames = [s \in Sessions |-> <<>>]
    /\ cookie = [b \in Browsers |-> {}]
    /\ threads = [t \in ThreadIds |-> {}]
    /\ runs = <<>>
    /\ uuids = 0
    /\ resp = NoResponse

(***************************************************************************)
(* The remote service: a run emits events, then ends or fails.             *)
(***************************************************************************)
Emit(k, ev) ==
    /\ status[k] = "running"
    /\ Len(log[k]) < MaxEvents
    /\ log' = [log EXCEPT ![k] = Append(@, ev)]
    /\ UNCHANGED <<routeVars, status, pc, key, pos, idx, frames>>

Finish(k) ==
    /\ status[k] = "running"
    /\ status' = [status EXCEPT ![k] = "ended"]
    /\ UNCHANGED <<routeVars, log, pc, key, pos, idx, frames>>

Fail(k) ==
    /\ status[k] = "running"
    /\ status' = [status EXCEPT ![k] = "failed"]
    /\ UNCHANGED <<routeVars, log, pc, key, pos, idx, frames>>

(***************************************************************************)
(* get_message and message_generator.                                      *)
(***************************************************************************)
\* get_message: a StreamingResponse over message_generator(thread_id, run_id)
GetMessage(s, thread_id, run_id) ==
    /\ pc[s] = "idle"
    /\ pc' = [pc EXCEPT ![s] = "loop"]
    /\ key' = [key EXCEPT ![s] = <<thread_id, run_id>>]
    /\ UNCHANGED <<routeVars, log, status, pos, idx, frames>>

\* (variant: every generator reading one and the same run)
SourceFirstRun(s) == <<"t1", "r1">>

\* the stream join_stream(thread_id, run_id) reads for session s
Source(s) == key[s]

Upstream(s) == log[Source(s)]

\* a frame written to session s, made from chunk_msg i of event p of its stream
Written(s, wire, p, i) == [wire |-> wire, from |-> Source(s), pos |-> p, idx |-> i]

\* the generator after the step r it took at chunk_msg i (0: none) of event p,
\* in an inner for loop over n chunk_msgs; idx counts the chunk_msgs it is past
After(s, r, p, i, n) ==
    /\ frames' = [frames EXCEPT ![s] =
                    IF r.kind = "yield" THEN Append(@, Written(s, r.wire, p, i)) ELSE @]
    /\ pc' = [pc EXCEPT ![s] =
                IF r.kind = "raise" THEN "raised" ELSE IF i < n THEN "body" ELSE "loop"]
    /\ idx' = [idx EXCEPT ![s] = IF r.kind = "raise" /\ i > 0 THEN i - 1 ELSE i]

\* line 593: async for takes the next chunk; lines 594-595: a "messages" event
NextMessages(s) ==
    /\ pc[s] = "loop"
    /\ pos[s] < Len(Upstream(s))
    /\ LET chunk == Upstream(s)[pos[s] + 1] IN
        /\ chunk.event = "messages"
        /\ pos' = [pos EXCEPT ![s] = @ + 1]
        /\ pc' = [pc EXCEPT ![s] = IF chunk.msgs = <<>> THEN "loop" ELSE "body"]
        /\ idx' = [idx EXCEPT ![s] = 0]
    /\ UNCHANGED <<routeVars, log, status, key, frames>>

\* lines 595-598: one turn of the inner for loop
FragmentTurn(s) ==
    /\ pc[s] = "body"
    /\ LET msgs == Upstream(s)[pos[s]].msgs IN
        After(s, FragmentStep(msgs[idx[s] + 1]), pos[s], idx[s] + 1, Len(msgs))
    /\ UNCHANGED <<routeVars, log, status, key, pos>>

\* line 593 and lines 599-610: the next chunk is a "values" event
NextValues(s) ==
    /\ pc[s] = "loop"
    /\ pos[s] < Len(Upstream(s))
    /\ LET chunk == Upstream(s)[pos[s] + 1] IN
        /\ chunk.event = "values"
        /\ pos' = [pos EXCEPT ![s] = @ + 1]
        /\ After(s, SnapshotStep(chunk.msgs), pos[s] + 1, 0, 0)
    /\ UNCHANGED <<routeVars, log, status, key>>

\* line 593: the next chunk is of another kind: no branch, next iteration
NextOther(s) ==
    /\ pc[s] = "loop"
    /\ pos[s] < Len(Upstream(s))
    /\ Upstream(s)[pos[s] + 1].event \notin {"messages", "values"}
    /\ pos' = [pos EXCEPT ![s] = @ + 1]
    /\ idx' = [idx EXCEPT ![s] = 0]
    /\ UNCHANGED <<routeVars, log, status, pc, key, frames>>

\* (variant: returning at the end of the loop without line 612)
StreamEndSilent(s) ==
    /\ pc[s] = "loop"
    /\ pos[s] = Len(Upstream(s))
    /\ status[Source(s)] = "ended"
    /\ pc' = [pc EXCEPT ![s] = "done"]
    /\ UNCHANGED <<routeVars, log, status, key, pos, idx, frames>>

\* lines 593, 612: the stream is exhausted: the loop ends, the close frame
StreamEnd(s) ==
    /\ pc[s] = "loop"
    /\ pos[s] = Len(Upstream(s))
    /\ status[Source(s)] = "ended"
    /\ frames' = [frames EXCEPT ![s] = Append(@, Written(s, CloseFrame, 0, 0))]
    /\ pc' = [pc EXCEPT ![s] = "done"]
    /\ UNCHANGED <<routeVars, log, status, key, pos, idx>>

\* line 593: join_stream raises; nothing in the generator catches it
StreamError(s) ==
    /\ pc[s] = "loop"
    /\ pos[s] = Len(Upstream(s))
    /\ status[Source(s)] = "failed"
    /\ pc' = [pc EXCEPT ![s] = "aborted"]
    /\ UNCHANGED <<routeVars, log, status, key, pos, idx, frames>>

Relay(s) ==
    \/ NextMessages(s)
    \/ FragmentTurn(s)
    \/ NextValues(s)
    \/ NextOther(s)
    \/ StreamEnd(s)
    \/ StreamError(s)

(***************************************************************************)
(* The page routes: get_user_id, root, new_thread, conversation,           *)
(* send_message.  uuids counts the uuid4() values that become thread ids   *)
(* and user ids; the n-th value drawn is n.  A response that carries       *)
(* Set-Cookie changes the browser's cookie.                                *)
(***************************************************************************)
\* lines 285-288: the cookie's value, or a new uuid4
GetUserId(cookies, fresh) == IF cookies = {} THEN fresh ELSE CHOOSE u \in cookies : TRUE

\* the browser's cookie after a response
Stored(old, response) == IF response.set_cookie # {} THEN response.set_cookie ELSE old

\* lines 433-437 and 514-518: redirect to a new thread id, set the cookie
Redirect(b, route) ==
    LET had == cookie[b] # {}
        thread_id == uuids + 1
        user_id == GetUserId(cookie[b], uuids + 2)
        drawn == IF had THEN 1 ELSE 2
        response == [NoResponse EXCEPT !.browser = b, !.route = route, !.kind = "redirect",
                        !.location = {thread_id}, !.user_id = {user_id},
                        !.had_cookie = had, !.set_cookie = {user_id}]
    IN  /\ uuids + drawn <= MaxUuids
        /\ uuids' = uuids + drawn
        /\ resp' = response
        /\ cookie' = [cookie EXCEPT ![b] = Stored(@, response)]
        /\ UNCHANGED <<relayVars, threads, runs>>

\* lines 430-437
Root(b) == Redirect(b, "root")

\* lines 508-518
NewThread(b) == Redirect(b, "new_thread")

\* line 450: the if_exists argument of threads.create
IfExistsRaise == "raise"

IfExists == "do_nothing"

\* the remote service's threads.create: the thread directory after it, and
\* whether it raises the conflict error
ThreadsCreate(thread_id, if_exists, user_id) ==
    IF threads[thread_id] = {}
    THEN [raise |-> FALSE, threads |-> [threads EXCEPT ![thread_id] = {user_id}]]
    ELSE [raise |-> if_exists = "raise", threads |-> threads]

\* the remote service's thread state: the messages of the runs of the thread
ThreadMessages(thread_id) ==
    LET mine == SelectSeq(runs, LAMBDA r : r.thread_id = thread_id)
    IN  [i \in 1..Len(mine) |-> Msg("human", Str(mine[i].input))]

\* lines 454-462: threads.get_state and its fallback; shape tells what
\* state["values"] is: a dict, a list of dicts, or a dict without "messages"
FetchMessages(thread_id, fails, shape) ==
    IF fails \/ shape = "empty" THEN <<>> ELSE ThreadMessages(thread_id)

\* lines 396-398: threads.search(metadata={"user_id": user_id})
Search(directory, user_id) == {t \in ThreadIds : directory[t] = {user_id}}

\* lines 440-505; failed: the remote calls that fail with an error of the
\* remote service during this request
Conversation(b, thread_id, failed, shape) ==
    LET had == cookie[b] # {}
        user_id == GetUserId(cookie[b], uuids + 1)
        created == ThreadsCreate(thread_id, IfExists, user_id)
        base == [NoResponse EXCEPT !.browser = b, !.route = "conversation",
                    !.thread = {thread_id}, !.existed = threads[thread_id] # {},
                    !.user_id = {user_id}, !.had_cookie = had]
        response ==
            IF "create" \in failed THEN [base EXCEPT !.kind = "error", !.error = "create"]
            ELSE IF created.raise THEN [base EXCEPT !.kind = "error", !.error = "conflict"]
            ELSE IF "search" \in failed THEN [base EXCEPT !.kind = "error", !.error = "search"]
            ELSE [base EXCEPT !.kind = "page", !.failed = failed \ {"create", "search"},
                     !.messages = FetchMessages(thread_id, "get_state" \in failed, shape),
                     !.listing = Search(created.threads, user_id)]
    IN  /\ uuids + (IF had THEN 0 ELSE 1) <= MaxUuids
        /\ uuids' = uuids + (IF had THEN 0 ELSE 1)
        /\ threads' = IF "create" \in failed THEN threads ELSE created.threads
        /\ resp' = response
        /\ cookie' = [cookie EXCEPT ![b] = Stored(@, response)]
        /\ UNCHANGED <<relayVars, runs>>

\* str.isspace()
IsSpace(s) == Len(s) > 0 /\ \A i \in 1..Len(s) : s[i] \in Whitespace

\* line 572: if not msg or msg.isspace()
ShortCircuitsOnEmpty(msg) == msg = <<>>

ShortCircuits(msg) == msg = <<>> \/ IsSpace(msg)

\* lines 563-585; form: the msg field of the form ({}: no such field);
\* ok: whether runs.create succeeds
SendMessage(b, thread_id, form, ok) ==
    LET msg == IF form = {} THEN <<>> ELSE CHOOSE m \in form : TRUE
        run_id == Len(runs) + 1
        base == [NoResponse EXCEPT !.browser = b, !.route = "send_message",
                    !.thread = {thread_id}, !.form = form]
    IN  IF ShortCircuits(msg)
        THEN /\ resp' = [base EXCEPT !.kind = "fragment"]
             /\ UNCHANGED <<relayVars, cookie, threads, runs, uuids>>
        ELSE IF ~ok
        THEN /\ resp' = [base EXCEPT !.kind = "error", !.error = "create_run"]
             /\ UNCHANGED <<relayVars, cookie, threads, runs, uuids>>
        ELSE /\ Len(runs) < MaxRuns
             /\ runs' = Append(runs, [thread_id |-> thread_id, run_id |-> run_id, input |-> msg])
             /\ resp' = [base EXCEPT !.kind = "fragment",
                            !.bubble = {msg}, !.placeholder = {<<thread_id, run_id>>}]
             /\ UNCHANGED <<relayVars, cookie, threads, uuids>>

(***************************************************************************)
(* Specifications.                                                         *)
(***************************************************************************)
\* one SSE session on one run, every kind of event
OneSession == {"s1"}
OneRun == {<<"t1", "r1">>}

Next ==
    \/ \E k \in OneRun, ev \in Events : Emit(k, ev)
    \/ \E k \in OneRun : Finish(k)
    \/ \E k \in OneRun : Fail(k)
    \/ \E s \in OneSession, k \in OneRun : GetMessage(s, k[1], k[2])
    \/ \E s \in OneSession : Relay(s)

Spec == Init /\ [][Next]_vars

\* several SSE sessions open at once, on the same run or on different runs
\* (the two runs emit different text, and both events of another kind)
ConcEvents(k) ==
    IF k = <<"t1", "r1">>
    THEN {Fragment(Str(A)), Chunk("metadata", <<>>)}
    ELSE {Snapshot(<<Msg("ai", Str(SpB))>>), Chunk("metadata", <<>>)}

NextConc ==
    \/ \E k \in RunKeys : \E ev \in ConcEvents(k) : Emit(k, ev)
    \/ \E k \in RunKeys : Finish(k)
    \/ \E k \in RunKeys : Fail(k)
    \/ \E s \in Sessions, k \in RunKeys : GetMessage(s, k[1], k[2])
    \/ \E s \in Sessions : Relay(s)

SpecConc == Init /\ [][NextConc]_vars

\* the page routes, two browsers
Forms == {{}} \cup {{m} : m \in {<<>>, <<" ", "\n">>, SpA}}
RemoteCalls == {"create", "get_state", "search"}
StateShapes == {"dict", "list", "empty"}

NextRoutes ==
    \/ \E b \in Browsers : Root(b)
    \/ \E b \in Browsers : NewThread(b)
    \/ \E b \in Browsers, t \in ThreadIds, failed \in SUBSET RemoteCalls, shape \in StateShapes :
            Conversation(b, t, failed, shape)
    \/ \E b \in Browsers, t \in ThreadIds, form \in Forms, ok \in BOOLEAN :
            SendMessage(b, t, form, ok)

SpecRoutes == Init /\ [][NextRoutes]_vars

(***************************************************************************)
(* What the claims speak of, stated apart from the generator's code.       *)
(***************************************************************************)
BlankChars == {" ", "\t", "\n"}
IsBlankText(t) == \A i \in 1..Len(t) : t[i] \in BlankChars

\* t without its leading and trailing blank characters
Trim(t) ==
    IF IsBlankText(t) THEN <<>>
    ELSE LET inked == {i \in 1..Len(t) : t[i] \notin BlankChars}
             lo == CHOOSE i \in inked : \A j \in inked : i <= j
             hi == CHOOSE i \in inked : \A j \in inked : j <= i
         IN  SubSeq(t, lo, hi)

\* the two frames of the SSE wire format
MessageWire(text) == <<"event: message", "\n", "data: ">> \o text \o <<"\n", "\n">>
CloseWire == <<"event: close", "\n", "data:", "\n", "\n">>

Opened(s) == pc[s] # "idle"
\* the events session s has taken from the stream it was opened with
Taken(s) == SubSeq(log[key[s]], 1, pos[s])
\* the generator of s is past chunk_msg i of event p (i = 0: past event p)
Past(s, p, i) == p < pos[s] \/ (p = pos[s] /\ i <= idx[s])
\* the frames of s made from chunk_msg i of event p
FramesFrom(s, p, i) == {n \in 1..Len(frames[s]) : frames[s][n].pos = p /\ frames[s][n].idx = i}
Wires(s) == [n \in 1..Len(frames[s]) |-> frames[s][n].wire]

IsFragmentEvent(ev) == ev.event = "messages"
IsSnapshotEvent(ev) == ev.event = "values"
IsText(c) == c.tag = "str"
\* a message fragment with non-blank text
IsInkedFragment(m) == IsText(m.content) /\ ~IsBlankText(m.content.val)
\* a message fragment whose text is empty or only whitespace
IsBlankFragment(m) == IsText(m.content) /\ IsBlankText(m.content.val)

\* the texts of the fragments of a sequence of fragment events, in order
RECURSIVE FragmentTexts(_)
FragmentTexts(evs) ==
    IF evs = <<>> THEN <<>>
    ELSE [i \in 1..Len(Head(evs).msgs) |-> Head(evs).msgs[i].content.val]
         \o FragmentTexts(Tail(evs))

\* the fragments the generator of s is past, as (event, chunk_msg) texts
PastTexts(s) ==
    IF pos[s] = 0 THEN <<>>
    ELSE FragmentTexts(SubSeq(log[key[s]], 1, pos[s] - 1))
         \o [i \in 1..idx[s] |-> log[key[s]][pos[s]].msgs[i].content.val]

(***************************************************************************)
(* C1.  A stream of fragment events with non-blank text that ends          *)
(* normally gives one message frame per fragment, with the fragment's      *)
(* literal text, in arrival order, then one close frame, and the generator *)
(* has then returned: as long as every event taken is such a fragment      *)
(* event, the frames written are exactly the message frames of the         *)
(* fragments the generator is past, in order, and once it has returned,    *)
(* those of the whole stream followed by the close frame.                  *)
(***************************************************************************)
C1_FragmentsRelayedInOrder ==
    \A s \in Sessions :
        (Opened(s) /\ \A p \in 1..pos[s] :
            /\ IsFragmentEvent(log[key[s]][p])
            /\ \A i \in 1..Len(log[key[s]][p].msgs) : IsInkedFragment(log[key[s]][p].msgs[i]))
        => /\ pc[s] \in {"loop", "body"}
              => Wires(s) = [n \in 1..Len(PastTexts(s)) |-> MessageWire(PastTexts(s)[n])]
           /\ pc[s] = "done"
              => /\ Wires(s) = [n \in 1..Len(FragmentTexts(log[key[s]])) |->
                                  MessageWire(FragmentTexts(log[key[s]])[n])] \o <<CloseWire>>
                 /\ ~ENABLED Relay(s)
           /\ pc[s] # "raised"

C1_Witness ==
    /\ pc["s1"] = "done"
    /\ log[key["s1"]] = <<Fragment(Str(A)), Fragment(Str(TwoLines)), Fragment(Str(SpA))>>
    /\ Wires("s1") = <<MessageWire(A), MessageWire(TwoLines), MessageWire(SpA), CloseWire>>

(***************************************************************************)
(* C2.  When the stream ends normally, whatever well-shaped events it      *)
(* held, exactly one close frame with empty data is written, it is the     *)
(* last frame of the session and no frame follows it: a close frame is     *)
(* only ever the last frame of a generator that has returned at the end of *)
(* its stream, a generator that has returned has written it, and           *)
(* well-shaped events never keep the generator from the end of a stream    *)
(* that has not failed.                                                    *)
(***************************************************************************)
IsWellShaped(ev) ==
    \/ /\ IsFragmentEvent(ev)
       /\ \A i \in 1..Len(ev.msgs) : ev.msgs[i].content.tag \in {"str", "missing"}
    \/ /\ IsSnapshotEvent(ev)
       /\ ev.msgs # <<>>
       /\ LET c == ev.msgs[Len(ev.msgs)].content IN
            \/ ev.msgs[Len(ev.msgs)].type # "ai"
            \/ c.tag \in {"str", "missing"}
            \/ c.tag = "list" /\ \A i \in 1..Len(c.val) : c.val[i].text.tag \in {"str", "missing"}
    \/ ~IsFragmentEvent(ev) /\ ~IsSnapshotEvent(ev)

C2_OneCloseFrameLast ==
    \A s \in Sessions :
        /\ \A n \in 1..Len(frames[s]) :
              Wires(s)[n] = CloseWire => n = Len(frames[s]) /\ pc[s] = "done"
        /\ pc[s] = "done"
              => /\ status[key[s]] = "ended" /\ pos[s] = Len(log[key[s]])
                 /\ Len(frames[s]) > 0 /\ Wires(s)[Len(frames[s])] = CloseWire
                 /\ ~ENABLED Relay(s)
        /\ (Opened(s) /\ \A p \in 1..pos[s] : IsWellShaped(log[key[s]][p]))
              => pc[s] # "raised"
        /\ (pc[s] = "loop" /\ status[key[s]] = "ended" /\ pos[s] = Len(log[key[s]]))
              => ENABLED StreamEnd(s)

C2_Witness ==
    /\ pc["s1"] = "done"
    /\ log[key["s1"]] = <<Fragment(Str(Blank)), Snapshot(<<Msg("ai", Str(B)), Human>>),
                          Chunk("metadata", <<>>)>>
    /\ Wires("s1") = <<CloseWire>>

(***************************************************************************)
(* C4.  With several SSE sessions open at once, every frame of a session   *)
(* is made from an event of the (thread_id, run_id) the session was opened *)
(* with, and the sessions do not touch each other: what a session has      *)
(* written is what the events it has taken from its own stream give, frame *)
(* by frame, whatever the other sessions do.                               *)
(***************************************************************************)
\* what an event of ConcEvents gives on the wire: its text, or nothing
ConcWires(ev) ==
    IF IsFragmentEvent(ev) THEN <<MessageWire(ev.msgs[1].content.val)>>
    ELSE IF IsSnapshotEvent(ev) THEN <<MessageWire(Trim(ev.msgs[Len(ev.msgs)].content.val))>>
    ELSE <<>>

RECURSIVE AllConcWires(_)
AllConcWires(evs) ==
    IF evs = <<>> THEN <<>> ELSE ConcWires(Head(evs)) \o AllConcWires(Tail(evs))

C4_FramesFromOwnRun ==
    \A s \in Sessions :
        Opened(s) =>
            /\ pos[s] <= Len(log[key[s]])
            /\ \A n \in 1..Len(frames[s]) :
                  /\ frames[s][n].from = key[s]
                  /\ Wires(s)[n] # CloseWire
                        => /\ frames[s][n].pos \in 1..pos[s]
                           /\ <<Wires(s)[n]>> = ConcWires(log[key[s]][frames[s][n].pos])
            /\ pc[s] \in {"loop", "done"}
                  => Wires(s) = AllConcWires(Taken(s))
                                \o (IF pc[s] = "done" THEN <<CloseWire>> ELSE <<>>)

C4_Witness ==
    /\ key["s1"] # key["s2"]
    /\ pc["s1"] = "done" /\ pc["s2"] = "done"
    /\ Len(frames["s1"]) = 3 /\ Len(frames["s2"]) = 3
    /\ Wires("s1") # Wires("s2")

(***************************************************************************)
(* C5.  If the stream raises mid-flight, the SSE session still ends with a *)
(* terminal frame (close, or an error frame): a session whose generator is *)
(* over has a terminal frame as its last frame.                            *)
(***************************************************************************)
IsTerminalWire(w) == w # <<>> /\ w[1] \in {"event: close", "event: error"}

C5_TerminalFrameOnError ==
    \A s \in Sessions :
        pc[s] = "aborted" => Len(frames[s]) > 0 /\ IsTerminalWire(Wires(s)[Len(frames[s])])

(***************************************************************************)
(* C6.  Every frame written is one well-formed SSE frame,                  *)
(* "event: message\ndata: <text>\n\n" or "event: close\ndata:\n\n", with   *)
(* no raw newline inside the data field.                                   *)
(***************************************************************************)
IsSingleFrame(w) ==
    \/ w = CloseWire
    \/ /\ Len(w) >= 5
       /\ SubSeq(w, 1, 3) = <<"event: message", "\n", "data: ">>
       /\ SubSeq(w, Len(w) - 1, Len(w)) = <<"\n", "\n">>
       /\ \A i \in 4..(Len(w) - 2) : w[i] # "\n"

C6_NoRawNewlineInData ==
    \A s \in Sessions : \A n \in 1..Len(frames[s]) : IsSingleFrame(Wires(s)[n])

(***************************************************************************)
(* C7.  A message fragment whose text is empty or only whitespace gives no *)
(* frame, and the frames of the events around it are as they are without   *)
(* it: no frame is made from a blank fragment, and every non-blank         *)
(* fragment the generator is past has exactly one frame, with its text.    *)
(***************************************************************************)
C7_BlankFragmentSuppressed ==
    \A s \in Sessions : \A p \in 1..pos[s] :
        IsFragmentEvent(log[key[s]][p]) =>
            \A i \in 1..Len(log[key[s]][p].msgs) :
                LET m == log[key[s]][p].msgs[i] IN
                /\ IsBlankFragment(m) => FramesFrom(s, p, i) = {}
                /\ (IsInkedFragment(m) /\ Past(s, p, i))
                      => \E n \in 1..Len(frames[s]) :
                            /\ FramesFrom(s, p, i) = {n}
                            /\ Wires(s)[n] = MessageWire(m.content.val)

C7_Witness ==
    /\ pc["s1"] = "done"
    /\ log[key["s1"]] = <<Fragment(Str(A)), Fragment(Str(Blank)), Fragment(Str(SpA))>>
    /\ Wires("s1") = <<MessageWire(A), MessageWire(SpA), CloseWire>>

(***************************************************************************)
(* C8.  A full-state snapshot whose last message is not the assistant's    *)
(* gives no frame.                                                         *)
(***************************************************************************)
LastMessage(ev) == ev.msgs[Len(ev.msgs)]

C8_EchoSuppressed ==
    \A s \in Sessions : \A p \in 1..pos[s] :
        LET ev == log[key[s]][p] IN
        (IsSnapshotEvent(ev) /\ ev.msgs # <<>> /\ LastMessage(ev).type # "ai")
            => /\ \A n \in 1..Len(frames[s]) : frames[s][n].pos # p
               /\ (p = pos[s] => pc[s] # "raised")

C8_Witness ==
    /\ pc["s1"] = "done"
    /\ log[key["s1"]] = <<Snapshot(<<Msg("ai", Str(B)), Human>>), Fragment(Str(A))>>
    /\ Wires("s1") = <<MessageWire(A), CloseWire>>

(***************************************************************************)
(* C9.  A full-state snapshot whose last message is the assistant's gives  *)
(* exactly one message frame whose data is the trimmed text of the         *)
(* message, the string itself or the text-bearing parts joined in order,   *)
(* and no frame when that text is empty after trimming.                    *)
(***************************************************************************)
\* the texts of the text-bearing parts of a sequence of parts, joined in order
PartsText(parts) ==
    LET bearing == {i \in 1..Len(parts) :
                      parts[i].isdict /\ IsText(parts[i].text) /\ parts[i].text.val # <<>>}
        upto[n \in 0..Len(parts)] ==
            IF n = 0 THEN <<>>
            ELSE upto[n - 1] \o (IF n \in bearing THEN parts[n].text.val ELSE <<>>)
    IN  upto[Len(parts)]

\* the text of a content that is a string or a sequence of parts
ContentText(c) == IF c.tag = "list" THEN PartsText(c.val) ELSE c.val

IsTextOrParts(c) ==
    \/ IsText(c)
    \/ c.tag = "list" /\ \A i \in 1..Len(c.val) : c.val[i].text.tag \in {"str", "missing"}

C9_SnapshotTextRelayed ==
    \A s \in Sessions : \A p \in 1..pos[s] :
        LET ev == log[key[s]][p] IN
        (IsSnapshotEvent(ev) /\ ev.msgs # <<>> /\ LastMessage(ev).type = "ai"
            /\ IsTextOrParts(LastMessage(ev).content))
        => LET text == Trim(ContentText(LastMessage(ev).content))
               made == {n \in 1..Len(frames[s]) : frames[s][n].pos = p}
           IN  /\ text = <<>> => made = {}
               /\ text # <<>> => \E n \in made : made = {n} /\ Wires(s)[n] = MessageWire(text)
               /\ (p = pos[s] => pc[s] # "raised")

C9_Witness ==
    /\ pc["s1"] = "done"
    /\ log[key["s1"]] = <<Snapshot(<<Msg("ai", ListV(<<TextPart(A), TextPart(SpB)>>))>>),
                          Snapshot(<<Human, Msg("ai", Str(Padded))>>),
                          Snapshot(<<Human, Msg("ai", Str(Blank))>>)>>
    /\ Wires("s1") = <<MessageWire(<<"a", " ", "b">>), MessageWire(A), CloseWire>>

(***************************************************************************)
(* C10.  An event whose content field has an unexpected shape is treated   *)
(* as empty content: no frame for it, no failure, and the generator goes   *)
(* on to the following events and to the close frame.  So no exception of  *)
(* the generator's own code ever leaves it.                                *)
(***************************************************************************)
C10_OddShapeNotFatal == \A s \in Sessions : pc[s] # "raised"

(***************************************************************************)
(* C11.  A send-message request whose msg field is missing, empty or only  *)
(* whitespace short-circuits: no run is created and neither a user bubble  *)
(* nor an assistant placeholder is returned; a run is created only for a   *)
(* message with a non-whitespace character.  Every run on the remote       *)
(* service has such an input, the answer to a blank request is the empty   *)
(* pair, and a placeholder names a run created with the message sent.      *)
(***************************************************************************)
IsBlankForm(form) == \A m \in form : IsBlankText(m)

C11_BlankMessageShortCircuits ==
    /\ \A i \in 1..Len(runs) : ~IsBlankText(runs[i].input)
    /\ resp.route = "send_message" =>
          /\ IsBlankForm(resp.form)
                => resp.kind = "fragment" /\ resp.bubble = {} /\ resp.placeholder = {}
          /\ resp.placeholder # {}
                => /\ ~IsBlankForm(resp.form)
                   /\ resp.bubble = resp.form
                   /\ \E i \in 1..Len(runs) :
                         /\ resp.placeholder = {<<runs[i].thread_id, runs[i].run_id>>}
                         /\ resp.thread = {runs[i].thread_id}
                         /\ resp.form = {runs[i].input}

C11_Witness ==
    /\ Len(runs) = 1
    /\ resp.route = "send_message"
    /\ resp.form = {<<" ", "\n">>}
    /\ resp.bubble = {} /\ resp.placeholder = {}

(***************************************************************************)
(* C12.  A request without a user_id cookie on a route that resolves the   *)
(* user identity (root, new_thread, conversation) is answered with the     *)
(* cookie set to the token generated for it, so that the owner token       *)
(* written to the thread is the cookie the browser holds afterwards.       *)
(***************************************************************************)
C12_FreshTokenSetAsCookie ==
    (resp.route \in {"root", "new_thread", "conversation"}
        /\ resp.kind \in {"redirect", "page"} /\ ~resp.had_cookie)
    => resp.set_cookie = resp.user_id /\ cookie[resp.browser] = resp.user_id

(***************************************************************************)
(* C13.  Thread creation on navigation is idempotent: a request for a      *)
(* thread that exists, by the same user or another, does not raise because *)
(* the thread exists and leaves the thread's metadata as the first request *)
(* recorded it.                                                            *)
(***************************************************************************)
C13_ThreadCreateIdempotent ==
    [][/\ \A t \in ThreadIds : threads[t] # {} => threads'[t] = threads[t]
       /\ resp'.route = "conversation" /\ resp'.existed => resp'.error # "conflict"]_vars

C13_Witness ==
    /\ resp.route = "conversation" /\ resp.kind = "page" /\ resp.existed
    /\ \E t \in resp.thread : threads[t] # {} /\ threads[t] # resp.user_id

(***************************************************************************)
(* C14.  A remote-service error while the conversation page is rendered    *)
(* never makes the page fail: with the thread-state fetch failing the page *)
(* has an empty history, with the thread search failing it has an empty    *)
(* thread list, and the handler returns the page in every case.            *)
(***************************************************************************)
C14_PageDegradesOnRemoteError ==
    (resp.route = "conversation" /\ resp.error # "create")
    => /\ resp.kind = "page"
       /\ "get_state" \in resp.failed => resp.messages = <<>>

====
